---------------------------- MODULE Spec2Model ----------------------------
(***************************************************************************)
(* A model of mogo's document container (src/mogo/model.py): the per-type  *)
(* field registry, construction of instances from keyword arguments, the   *)
(* instance life cycle (save / update / delete), the type-level            *)
(* operations and document equality.                                       *)
(*                                                                         *)
(* The document store is an external collaborator: the model records the   *)
(* calls an operation issues to it and draws the ids it returns.           *)
(* Field (mogo/field.py), notinstancemethod (mogo/decorators.py) and       *)
(* PolyModel are not part of src/; they are modelled from spec.md.         *)
(***************************************************************************)
EXTENDS Integers, Sequences, FiniteSets, TLC

VARIABLES
    defined,     \* the classes the application defines
    attrs,       \* attrs[T]: names of the attributes set on class T itself that hold a Field
    fields,      \* fields[T]: the registry T.__fields, a dict  descriptor id -> attribute name
    auto,        \* mogo.AUTO_CREATE_FIELDS
    collection,  \* collection[T]: the class attribute T._collection ("" when T does not set it)
    inst,        \* the instance the program operates on: [cls, doc], or NoInst
    other,       \* a second instance the program keeps for comparison, or NoInst
    last         \* the operation performed last: its name, input, error, store calls, result

vars == <<defined, attrs, fields, auto, collection, inst, other, last>>

-----------------------------------------------------------------------------
(* Bounds *)

MaxId == 2      \* ids are 0..MaxId; 0 is a falsy id
MaxKeys == 2    \* most keyword arguments in one call

(* Values *)

NoVal == -1                       \* Python's None
EmptyDoc == [x \in {} |-> NoVal]  \* {}
NoInst == [cls |-> "", doc |-> EmptyDoc]
NoRef == [coll |-> "", id |-> NoVal]
Ids == 0 .. MaxId
GenIds == 1 .. MaxId              \* ids the store generates (never falsy)

Put(doc, k, v) == [x \in DOMAIN doc \cup {k} |-> IF x = k THEN v ELSE doc[x]]

Truthy(v) == v # NoVal /\ v # 0
\* key.startswith("_"), over the names the model uses
Private(k) == k \in {"_id", "_p"}

-----------------------------------------------------------------------------
(* The classes of the application (after src/tests/test_model.py) *)

Types == {"Foo", "Bar", "Foo2", "Person", "Infant"}

\* the base class of each class; "Model" is the root
Parent(T) ==
    CASE T = "Bar" -> "Foo"
      [] T = "Infant" -> "Person"
      [] OTHER -> "Model"

\* cls.__name__ : Foo2 is a second class called Foo, defined elsewhere
ClassName(T) == IF T = "Foo2" THEN "Foo" ELSE T

\* the Field attributes in each class body
Declared(T) ==
    CASE T = "Foo" -> {"r"}
      [] T = "Bar" -> {"s"}
      [] T = "Foo2" -> {"_p"}
      [] T = "Person" -> {"role"}
      [] T = "Infant" -> {"role", "age"}
      [] OTHER -> {}

\* the method resolution order of T, nearest class first
RECURSIVE Mro(_)
Mro(T) == IF T = "Model" THEN <<>> ELSE <<T>> \o Mro(Parent(T))

MroSet(T) == {Mro(T)[i] : i \in 1 .. Len(Mro(T))}

-----------------------------------------------------------------------------
(* Field descriptors.  A descriptor's identity is the pair <<class whose    *)
(* attribute holds it, attribute name>>: every Field object is assigned to *)
(* exactly one class attribute.                                            *)

SetConst == 5   \* what the set hook of Foo.r returns ("bar" in the tests)

PlainField == [required |-> FALSE, default |-> NoVal, callable |-> FALSE,
               field_name |-> "", set_callback |-> ""]

\* the Field(...) expression behind each descriptor; an ad-hoc field is Field()
Descr(id) ==
    CASE id = <<"Foo", "r">> ->
            [PlainField EXCEPT !.required = TRUE, !.set_callback = "const"]
      [] id = <<"Bar", "s">> ->
            [PlainField EXCEPT !.default = 8, !.callable = TRUE, !.field_name = "x"]
      [] id = <<"Foo2", "_p">> -> [PlainField EXCEPT !.required = TRUE]
      [] id = <<"Person", "role">> -> [PlainField EXCEPT !.default = 1]
      [] id = <<"Infant", "role">> -> [PlainField EXCEPT !.default = 2]
      [] id = <<"Infant", "age">> -> [PlainField EXCEPT !.default = 3]
      [] OTHER -> PlainField

\* Field._get_default: the default, or the result of calling it
GetDefault(id) == Descr(id).default

\* Field._get_field_name: the storage name
FieldName(id) == IF Descr(id).field_name # "" THEN Descr(id).field_name ELSE id[2]

\* the set hook applied to a value
SetHook(id, v) == IF Descr(id).set_callback = "const" THEN SetConst ELSE v

\* Field.__set__: the hook's result is stored under the storage name
FieldSet(doc, id, v) == Put(doc, FieldName(id), SetHook(id, v))

\* Field.__get__: the stored value, None when there is none;
\* a required field without a value raises
FieldGet(doc, id) ==
    IF FieldName(id) \in DOMAIN doc
    THEN [err |-> "", val |-> doc[FieldName(id)]]
    ELSE [err |-> IF Descr(id).required THEN "EmptyRequiredField" ELSE "",
          val |-> NoVal]

-----------------------------------------------------------------------------
(* Class attributes and the registry *)

\* dir(cls), restricted to the attributes that hold a Field
Dir(at, T) == UNION {at[C] : C \in MroSet(T)}

\* the class getattr(T, name) finds the attribute on
Owner(at, T, name) ==
    LET m == Mro(T)
        i == CHOOSE i \in 1 .. Len(m) :
                 /\ name \in at[m[i]]
                 /\ \A j \in 1 .. i - 1 : name \notin at[m[j]]
    IN  m[i]

\* getattr(T, name) when it is a Field: the descriptor's identity
Attr(at, T, name) == <<Owner(at, T, name), name>>

\* (mutant) the registry of the class body, attributes set later ignored
UpdateFields_Stale(at, T) ==
    LET body == [C \in Types |-> Declared(C)]
        keys == {n \in Dir(body, T) : ~Private(n)}
    IN  [id \in {Attr(body, T, n) : n \in keys} |-> id[2]]

\* Model._update_fields: the registry rebuilt from dir(cls)
UpdateFields(at, T) ==
    LET keys == {n \in Dir(at, T) : ~Private(n)}
    IN  [id \in {Attr(at, T, n) : n \in keys} |-> id[2]]

\* self._fields.values()
FieldNames(reg) == {reg[id] : id \in DOMAIN reg}

\* (mutant) the registry of the first class of the hierarchy
ClassFields_Base(regs, C) == regs[Mro(C)[Len(Mro(C))]]

\* the property Model._fields of an instance of C: C.__fields
ClassFields(regs, C) == regs[C]

-----------------------------------------------------------------------------
(* Polymorphic types: Person is a base type whose registry selects Infant *)
(* for the discriminator value 2                                          *)

\* get_child_key(): the discriminator key of a base type, "" for a plain type
ChildKey(T) == IF T = "Person" THEN "role" ELSE ""

\* the registrations of a base type: discriminator value -> subtype
ChildModels(T) == IF T = "Person" THEN (2 :> "Infant") ELSE EmptyDoc

\* the concrete type built when T is called with the raw document kw
Resolve(T, kw) ==
    IF /\ ChildKey(T) # ""
       /\ ChildKey(T) \in DOMAIN kw
       /\ kw[ChildKey(T)] \in DOMAIN ChildModels(T)
    THEN ChildModels(T)[kw[ChildKey(T)]]
    ELSE T

-----------------------------------------------------------------------------
(* Collections *)

\* Model._get_name: no class sets _name; a registered subtype shares the
\* collection of its base type
GetName(T) ==
    CASE T \in {"Foo", "Foo2"} -> "foo"
      [] T = "Bar" -> "bar"
      [] OTHER -> "person"

\* cls._collection, looked up along the classes of T
Cached(coll, T) ==
    LET m == Mro(T)
        hit == {i \in 1 .. Len(m) : coll[m[i]] # ""}
    IN  IF hit = {} THEN ""
        ELSE coll[m[CHOOSE i \in hit : \A j \in hit : i <= j]]

\* Model._get_collection: the handle (its collection name) and the new cache
GetCollection(coll, T) ==
    IF Cached(coll, T) = ""
    THEN [name |-> GetName(T), cache |-> [coll EXCEPT ![T] = GetName(T)]]
    ELSE [name |-> Cached(coll, T), cache |-> coll]

-----------------------------------------------------------------------------
(* What an operation leaves behind in `last` *)

\* a call to the collection handle: method, collection, filter, document,
\* and whether the document is sent wrapped as {"$set": document}
Call(m, c, spec, body, set) ==
    [m |-> m, coll |-> c, spec |-> spec, body |-> body, set |-> set]

\* op on class T (through an instance or the type) with keyword arguments kw
\* and filter arg; the error raised, the store calls issued, the id returned
Done(op, T, kw, err, calls, ret) ==
    [op |-> op, cls |-> T, kw |-> kw, arg |-> EmptyDoc, through_instance |-> TRUE,
     err |-> err, calls |-> calls, ret |-> ret, ref |-> NoRef]

\* the same for an operation read through the type
DoneType(op, T, kw, arg, calls) ==
    [Done(op, T, kw, "", calls, NoVal) EXCEPT !.arg = arg, !.through_instance = FALSE]

-----------------------------------------------------------------------------
(* Model.__init__ *)

\* the keyword keys __init__ turns into ad-hoc fields or rejects
Unknown(reg, kw) == {k \in DOMAIN kw : ~Private(k) /\ k \notin FieldNames(reg)}

\* lines 133-148: the loop over the keyword arguments, once it is known not
\* to raise; at are the class attributes after add_field
RECURSIVE InitLoop(_, _, _, _, _)
InitLoop(doc, at, C, kw, keys) ==
    IF keys = {} THEN doc
    ELSE LET k == CHOOSE k \in keys : TRUE
             d == IF Private(k) \/ "_id" \in DOMAIN kw
                  THEN Put(doc, k, kw[k])
                  ELSE FieldSet(doc, Attr(at, C, k), kw[k])
         IN  InitLoop(d, at, C, kw, keys \ {k})

\* lines 150-158: the defaults of the registered fields
RECURSIVE Defaults(_, _, _, _)
Defaults(doc, at, C, names) ==
    IF names = {} THEN doc
    ELSE LET n == CHOOSE n \in names : TRUE
             id == Attr(at, C, n)
             d == IF GetDefault(id) # NoVal /\ n \notin DOMAIN doc
                  THEN Put(doc, n, GetDefault(id))
                  ELSE doc
         IN  Defaults(d, at, C, names \ {n})

\* line 154: self._fields[attr.id] = field_name
Refresh(reg, at, C) ==
    [id \in DOMAIN reg \cup {Attr(at, C, n) : n \in FieldNames(reg)} |->
        IF id[2] \in FieldNames(reg) /\ id = Attr(at, C, id[2]) THEN id[2] ELSE reg[id]]

\* Model.add_field for each of the names: setattr on the class, which
\* rebuilds the registry
AddFields(at, C, names) == [at EXCEPT ![C] = @ \cup names]

\* (mutant) unknown keys never raise
Rejects_Never(adhoc, a) == FALSE

\* lines 143-144: unknown keys raise unless the schemaless toggle a is on
Rejects(adhoc, a) == adhoc # {} /\ ~a

\* T(**kw)
Construct(T, kw) ==
    LET C == Resolve(T, kw)
        new == "_id" \notin DOMAIN kw
        adhoc == IF new THEN Unknown(ClassFields(fields, C), kw) ELSE {}
        at == AddFields(attrs, C, adhoc)
        reg == IF adhoc = {} THEN ClassFields(fields, C) ELSE UpdateFields(at, C)
        doc == InitLoop(EmptyDoc, at, C, kw, DOMAIN kw)
    IN  IF Rejects(adhoc, auto)
        THEN /\ last' = [Done("init", T, kw, "UnknownField", <<>>, NoVal)
                            EXCEPT !.through_instance = FALSE]
             /\ UNCHANGED <<defined, attrs, fields, auto, collection, inst, other>>
        ELSE /\ attrs' = at
             /\ fields' = [fields EXCEPT ![C] = Refresh(reg, at, C)]
             /\ inst' = [cls |-> C, doc |-> Defaults(doc, at, C, FieldNames(reg))]
             /\ last' = DoneType("init", T, kw, EmptyDoc, <<>>)
             /\ UNCHANGED <<defined, auto, collection, other>>

\* mogo.AUTO_CREATE_FIELDS = b
SetAuto(b) ==
    /\ auto # b
    /\ auto' = b
    /\ last' = DoneType("config", "", EmptyDoc, EmptyDoc, <<>>)
    /\ UNCHANGED <<defined, attrs, fields, collection, inst, other>>

-----------------------------------------------------------------------------
(* The instance life cycle *)

\* Model._get_id: self.get(self._id_field)
GetId(doc) == IF "_id" \in DOMAIN doc THEN doc["_id"] ELSE NoVal

\* hasattr(T, name), for the attributes that hold a Field
HasAttr(at, T, name) == name \in Dir(at, T)

\* Model._check_required(*names): "" or the error raised
CheckRequired(reg, at, C, doc, names) ==
    LET checked == IF names = {} THEN FieldNames(reg) ELSE names
    IN  IF \E n \in checked :
              /\ FieldName(Attr(at, C, n)) \notin DOMAIN doc
              /\ Descr(Attr(at, C, n)).required
        THEN "EmptyRequiredField"
        ELSE ""

\* Model.save
Save ==
    /\ inst # NoInst
    /\ LET C == inst.cls
           coll == GetCollection(collection, C)
           err == CheckRequired(ClassFields(fields, C), attrs, C, inst.doc, {})
       IN  /\ collection' = coll.cache
           /\ IF err # ""
              THEN /\ last' = Done("save", C, EmptyDoc, err, <<>>, NoVal)
                   /\ UNCHANGED inst
              ELSE \E new_object_id \in
                          IF "_id" \in DOMAIN inst.doc THEN {inst.doc["_id"]} ELSE GenIds :
                      /\ inst' = IF ~Truthy(GetId(inst.doc))
                                 THEN [inst EXCEPT !.doc = Put(@, "_id", new_object_id)]
                                 ELSE inst
                      /\ last' = Done("save", C, EmptyDoc, "",
                                      <<Call("save", coll.name, EmptyDoc, inst.doc, FALSE)>>,
                                      new_object_id)
    /\ UNCHANGED <<defined, attrs, fields, auto, other>>

\* (mutant) the id is not looked at
Unsaved_Never(object_id) == FALSE

\* lines 215-216 of _instance_update: no id, no update
Unsaved(object_id) == ~Truthy(object_id)

\* (mutant) the entry is sent under the attribute name
BodyEntry_ByKey(body, doc, field_name, key) == Put(body, key, doc[field_name])

\* lines 233-236 of _instance_update: the entry of the $set body for the
\* field stored in doc under field_name
BodyEntry(body, doc, field_name, key) == Put(body, field_name, doc[field_name])

\* lines 224-236 of _instance_update: the loop over the keyword arguments in
\* the order ord; it stops at the first key for which getattr raises
RECURSIVE UpdateLoop(_, _, _, _, _, _, _)
UpdateLoop(doc, body, reg, at, C, kw, ord) ==
    IF ord = <<>> THEN [doc |-> doc, body |-> body, err |-> ""]
    ELSE LET key == Head(ord)
             d == IF key \in FieldNames(reg)
                  THEN FieldSet(doc, Attr(at, C, key), kw[key])
                  ELSE Put(doc, key, kw[key])
         IN  IF ~HasAttr(at, C, key)
             THEN [doc |-> d, body |-> body, err |-> "AttributeError"]
             ELSE LET field_name == FieldName(Attr(at, C, key))
                  IN  IF field_name \notin DOMAIN d
                      THEN [doc |-> d, body |-> body, err |-> "KeyError"]
                      ELSE UpdateLoop(d, BodyEntry(body, d, field_name, key),
                                      reg, at, C, kw, Tail(ord))

\* the orders in which a dict may yield the keys ks
Orders(ks) ==
    {ord \in [1 .. Cardinality(ks) -> ks] :
        \A i, j \in 1 .. Cardinality(ks) : ord[i] = ord[j] => i = j}

\* Model._instance_update: instance.update(**kw)
InstanceUpdate(kw) ==
    /\ inst # NoInst
    /\ LET C == inst.cls
           object_id == GetId(inst.doc)
       IN  IF Unsaved(object_id)
           THEN /\ last' = Done("update", C, kw, "InvalidUpdateCall", <<>>, NoVal)
                /\ UNCHANGED <<inst, collection>>
           ELSE \E ord \in Orders(DOMAIN kw) :
                  LET reg == ClassFields(fields, C)
                      r == UpdateLoop(inst.doc, EmptyDoc, reg, attrs, C, kw, ord)
                      err == IF r.err # "" THEN r.err
                             ELSE CheckRequired(reg, attrs, C, r.doc, DOMAIN kw)
                      coll == GetCollection(collection, C)
                  IN  /\ inst' = [inst EXCEPT !.doc = r.doc]
                      /\ IF err # ""
                         THEN /\ last' = Done("update", C, kw, err, <<>>, NoVal)
                              /\ UNCHANGED collection
                         ELSE /\ collection' = coll.cache
                              /\ last' = Done("update", C, kw, "",
                                              <<Call("update", coll.name,
                                                     "_id" :> object_id, r.body, TRUE)>>,
                                              NoVal)
    /\ UNCHANGED <<defined, attrs, fields, auto, other>>

\* Model.delete
Delete ==
    /\ inst # NoInst
    /\ LET C == inst.cls
           coll == GetCollection(collection, C)
       IN  IF ~Truthy(GetId(inst.doc))
           THEN /\ last' = Done("delete", C, EmptyDoc, "ValueError", <<>>, NoVal)
                /\ UNCHANGED collection
           ELSE /\ collection' = coll.cache
                /\ last' = Done("delete", C, EmptyDoc, "",
                                <<Call("remove", coll.name,
                                       "_id" :> GetId(inst.doc), EmptyDoc, FALSE)>>,
                                NoVal)
    /\ UNCHANGED <<defined, attrs, fields, auto, inst, other>>

-----------------------------------------------------------------------------
(* Operations of the type *)

\* Model._class_update: T.update(spec, changes)
ClassUpdate(T, spec, changes) ==
    LET coll == GetCollection(collection, T)
    IN  /\ collection' = coll.cache
        /\ last' = DoneType("class_update", T, changes, spec,
                             <<Call("update", coll.name, spec, changes, FALSE)>>)
        /\ UNCHANGED <<defined, attrs, fields, auto, inst, other>>

\* notinstancemethod.__get__: the error raised when the attribute is read
\* through an instance
NotInstanceMethod(through_instance) == IF through_instance THEN "TypeError" ELSE ""

\* (mutant) remove is a plain classmethod
RemoveGuard_Missing(through_instance) == ""

\* line 273: remove is wrapped in notinstancemethod
RemoveGuard(through_instance) == NotInstanceMethod(through_instance)

\* line 279: drop is wrapped in notinstancemethod
DropGuard(through_instance) == NotInstanceMethod(through_instance)

\* line 423: make_ref is wrapped in notinstancemethod
MakeRefGuard(through_instance) == NotInstanceMethod(through_instance)

\* Model.remove, read through the type T or through the instance
Remove(T, through_instance, spec) ==
    LET coll == GetCollection(collection, T)
        err == RemoveGuard(through_instance)
    IN  /\ IF err # ""
           THEN /\ last' = Done("remove", T, EmptyDoc, err, <<>>, NoVal)
                /\ UNCHANGED collection
           ELSE /\ collection' = coll.cache
                /\ last' = [DoneType("remove", T, EmptyDoc, spec,
                                     <<Call("remove", coll.name, spec, EmptyDoc, FALSE)>>)
                            EXCEPT !.through_instance = through_instance]
        /\ UNCHANGED <<defined, attrs, fields, auto, inst, other>>

\* Model.drop, read through the type T or through the instance
Drop(T, through_instance) ==
    LET coll == GetCollection(collection, T)
        err == DropGuard(through_instance)
    IN  /\ IF err # ""
           THEN /\ last' = Done("drop", T, EmptyDoc, err, <<>>, NoVal)
                /\ UNCHANGED collection
           ELSE /\ collection' = coll.cache
                /\ last' = [DoneType("drop", T, EmptyDoc, EmptyDoc,
                                     <<Call("drop", coll.name, EmptyDoc, EmptyDoc, FALSE)>>)
                            EXCEPT !.through_instance = through_instance]
        /\ UNCHANGED <<defined, attrs, fields, auto, inst, other>>

\* Model.make_ref, read through the type T or through the instance
MakeRef(T, through_instance, idval) ==
    LET err == MakeRefGuard(through_instance)
    IN  /\ last' = [Done("make_ref", T, EmptyDoc, err, <<>>, NoVal) EXCEPT
                       !.through_instance = through_instance,
                       !.ref = IF err # "" THEN NoRef
                               ELSE [coll |-> GetName(T), id |-> idval]]
        /\ UNCHANGED <<defined, attrs, fields, auto, collection, inst, other>>

\* an operation of the type reached as inst.remove / inst.drop / inst.make_ref
ThroughInstance ==
    /\ inst # NoInst
    /\ \/ \E spec \in {EmptyDoc} : Remove(inst.cls, TRUE, spec)
       \/ Drop(inst.cls, TRUE)
       \/ \E idval \in GenIds : MakeRef(inst.cls, TRUE, idval)

-----------------------------------------------------------------------------
(* Equality *)

\* Model.__eq__, for two Model instances
Eq(a, b) ==
    /\ ClassName(a.cls) = ClassName(b.cls)
    /\ Truthy(GetId(a.doc))
    /\ Truthy(GetId(b.doc))
    /\ GetId(a.doc) = GetId(b.doc)

\* Model.__ne__
Ne(a, b) == ~Eq(a, b)

\* the program keeps the instance and goes on to build another
Keep ==
    /\ inst # NoInst
    /\ other' = inst
    /\ last' = Done("keep", inst.cls, EmptyDoc, "", <<>>, NoVal)
    /\ UNCHANGED <<defined, attrs, fields, auto, collection, inst>>

-----------------------------------------------------------------------------
(* References *)

\* (mutant) the token carries no id
GetRef_NoId(i) == [coll |-> GetName(i.cls), id |-> NoVal]

\* Model.get_ref: DBRef(self._get_name(), self._get_id())
GetRef(i) == [coll |-> GetName(i.cls), id |-> GetId(i.doc)]

\* cls._id_type(object_id), _id_type being ObjectId: the ids the store
\* generates are ObjectIds already; the falsy id (0 or "") is none and
\* cannot be turned into one
Cast(object_id) ==
    IF object_id \in GenIds
    THEN [err |-> "", val |-> object_id]
    ELSE [err |-> "TypeError", val |-> NoVal]

\* what the store holds once the calls of l have been served, as far as l
\* tells: a successful save leaves the document it sent, with its id, in
\* the collection it was sent to
Held(l) ==
    IF l.op = "save" /\ l.err = ""
    THEN {[coll |-> l.calls[1].coll, doc |-> Put(l.calls[1].body, "_id", l.ret)]}
    ELSE {}

\* coll.find_one({"_id": object_id}) on the collection c: the document, or
\* None (the empty document stands for it; a stored document has an _id)
FindOne(held, c, object_id) ==
    LET hit == {h \in held : h.coll = c /\ h.doc["_id"] = object_id}
    IN  IF hit = {} THEN EmptyDoc ELSE (CHOOSE h \in hit : TRUE).doc

\* Model.grab (lines 350-355) and Model.find_one (lines 297-307), called on
\* the program's instance's class with the id of its reference token, right
\* after the instance was saved; the result becomes the second instance
Grab ==
    /\ inst # NoInst
    /\ Held(last) # {}
    /\ LET T == inst.cls
           ref == GetRef(inst)
           object_id == Cast(ref.id)
           coll == GetCollection(collection, T)
           result == FindOne(Held(last), coll.name, object_id.val)
           C == Resolve(T, result)
           reg == ClassFields(fields, C)
           doc == InitLoop(EmptyDoc, attrs, C, result, DOMAIN result)
       IN  IF object_id.err # ""
           THEN /\ last' = [Done("grab", T, EmptyDoc, object_id.err, <<>>, NoVal)
                               EXCEPT !.ref = ref, !.through_instance = FALSE]
                /\ other' = NoInst
                /\ UNCHANGED <<fields, collection>>
           ELSE /\ collection' = coll.cache
                /\ last' = [DoneType("grab", T, EmptyDoc, "_id" :> object_id.val,
                                     <<Call("find_one", coll.name, "_id" :> object_id.val,
                                            EmptyDoc, FALSE)>>)
                               EXCEPT !.ref = ref]
                /\ IF result = EmptyDoc
                   THEN other' = NoInst /\ UNCHANGED fields
                   ELSE /\ other' = [cls |-> C,
                                     doc |-> Defaults(doc, attrs, C, FieldNames(reg))]
                        /\ fields' = [fields EXCEPT ![C] = Refresh(reg, attrs, C)]
    /\ UNCHANGED <<defined, attrs, auto, inst>>

-----------------------------------------------------------------------------
(* Class attributes assigned after the class was created *)

\* Model.add_field(name, Field()), which is also what T.name = Field() does:
\* NewModelClass.__setattr__ rebuilds the registry of the class assigned to
AddField(T, name) ==
    LET at == AddFields(attrs, T, {name})
    IN  /\ attrs' = at
        /\ fields' = [fields EXCEPT ![T] = UpdateFields(at, T)]
        /\ last' = DoneType("add_field", T, name :> NoVal, EmptyDoc, <<>>)
        /\ UNCHANGED <<defined, auto, collection, inst, other>>

\* T.name = value, for a value that is no Field and a name that held one:
\* NewModelClass.__setattr__ (lines 81-85) leaves the registry alone
SetAttr(T, name) ==
    /\ name \in attrs[T]
    /\ attrs' = [attrs EXCEPT ![T] = @ \ {name}]
    /\ last' = DoneType("setattr", T, name :> NoVal, EmptyDoc, <<>>)
    /\ UNCHANGED <<defined, fields, auto, collection, inst, other>>

-----------------------------------------------------------------------------
(* Inputs *)

\* the keyword keys the program passes when it builds or updates a T
Keys(T) ==
    CASE T = "Foo" -> {"_id", "r", "k"}
      [] T = "Bar" -> {"_id", "r", "s"}
      [] T = "Foo2" -> {"_id", "_p"}
      [] OTHER -> {"_id", "role", "age"}

\* the values the program passes under a key
KeyVals(k) ==
    CASE k = "_id" -> Ids
      [] k = "role" -> {1, 2}
      [] OTHER -> {1}

\* keyword arguments over the keys ks, at most MaxKeys of them
Kwargs(ks) ==
    UNION {{kw \in [S -> 0 .. MaxId \cup {1, 2}] : \A k \in S : kw[k] \in KeyVals(k)} :
           S \in {S \in SUBSET ks : Cardinality(S) <= MaxKeys}}

-----------------------------------------------------------------------------

\* the applications: each defines some of the classes
Applications == {{"Foo", "Bar"}, {"Foo", "Foo2"}, {"Person", "Infant"}}

Init ==
    /\ defined \in Applications
    /\ attrs = [T \in Types |-> Declared(T)]
    /\ fields = [T \in Types |-> UpdateFields([C \in Types |-> Declared(C)], T)]
    /\ auto = FALSE
    /\ collection = [T \in Types |-> ""]
    /\ inst = NoInst
    /\ other = NoInst
    /\ last = DoneType("", "", EmptyDoc, EmptyDoc, <<>>)

\* the filters and changes the program passes to the operations of the type
Filters == {EmptyDoc, "r" :> 1}
Changes == {"r" :> 2}

\* the keyword arguments of the programs that only compare or remove documents
IdKeys(T) == Keys(T) \cap {"_id", "r", "role"}

\* programs that build documents and persist them
Next ==
    \/ \E T \in defined : \E kw \in Kwargs(Keys(T)) : Construct(T, kw)
    \/ Save
    \/ \E kw \in Kwargs(Keys(inst.cls)) : InstanceUpdate(kw)
    \/ Delete
    \/ \E T \in defined, spec \in Filters, changes \in Changes : ClassUpdate(T, spec, changes)

Spec == Init /\ [][Next]_vars

\* programs that build documents while the schemaless toggle changes
NextInit ==
    \/ \E T \in defined : \E kw \in Kwargs(Keys(T)) : Construct(T, kw)
    \/ \E b \in BOOLEAN : SetAuto(b)

SpecInit == Init /\ [][NextInit]_vars

\* programs that use the operations of the type
NextType ==
    \/ \E T \in defined : \E kw \in Kwargs(IdKeys(T)) : Construct(T, kw)
    \/ \E T \in defined, spec \in Filters : Remove(T, FALSE, spec)
    \/ \E T \in defined : Drop(T, FALSE)
    \/ \E T \in defined, idval \in GenIds : MakeRef(T, FALSE, idval)
    \/ ThroughInstance

SpecType == Init /\ [][NextType]_vars

\* programs that compare two instances
NextEq ==
    \/ \E T \in defined : \E kw \in Kwargs(IdKeys(T)) : Construct(T, kw)
    \/ Keep

SpecEq == Init /\ [][NextEq]_vars

\* programs that save a document and resolve its reference token
NextRef ==
    \/ \E T \in defined : \E kw \in Kwargs(IdKeys(T)) : Construct(T, kw)
    \/ Save
    \/ Grab

SpecRef == Init /\ [][NextRef]_vars

\* the names the program gives to the fields it adds to a class
AdHoc == {"k", "j"}

\* programs that change the attributes of their classes
NextReg ==
    \/ \E T \in defined, name \in AdHoc : AddField(T, name)
    \/ \E T \in defined : \E name \in attrs[T] : SetAttr(T, name)

SpecReg == Init /\ [][NextReg]_vars

-----------------------------------------------------------------------------
(* Claims *)

\* the concrete type an operation on last.cls with last.kw builds
Built(l) == Resolve(l.cls, l.kw)

\* kw has a key that is not reserved and names no Field attribute of C
HasUndeclared(C, kw) == \E k \in DOMAIN kw : ~Private(k) /\ ~HasAttr(attrs, C, k)

\* C1 as stated: with the schemaless toggle off, a construction whose keys
\* include a non-reserved key that is no declared field fails with
\* UnknownField, builds no instance and leaves the registries alone,
\* whatever the other keys are (an _id key included).
C1_Original ==
    [][(/\ last'.op = "init"
        /\ ~auto
        /\ HasUndeclared(Built(last'), last'.kw))
       => (/\ last'.err = "UnknownField"
           /\ inst' = inst
           /\ fields' = fields)]_vars

\* C1 amended: the same, for keyword arguments that carry no _id key.
C1_UnknownField ==
    [][(/\ last'.op = "init"
        /\ ~auto
        /\ "_id" \notin DOMAIN last'.kw
        /\ HasUndeclared(Built(last'), last'.kw))
       => (/\ last'.err = "UnknownField"
           /\ inst' = inst
           /\ fields' = fields)]_vars

\* an undeclared key was rejected although a declared key came with it,
\* and the instance built before is still the program's instance
C1_Witness ==
    /\ last.op = "init"
    /\ last.err = "UnknownField"
    /\ ~auto
    /\ \E k \in DOMAIN last.kw : ~Private(k) /\ HasAttr(attrs, Built(last), k)
    /\ inst # NoInst

\* some required Field attribute of C, inherited or not, has no value in doc
RequiredUnset(C, doc) ==
    \E n \in Dir(attrs, C) :
        /\ Descr(Attr(attrs, C, n)).required
        /\ FieldName(Attr(attrs, C, n)) \notin DOMAIN doc

\* C2 as stated: save() on an instance with a required field of its type
\* unset fails with EmptyRequiredField, issues no store call and leaves the
\* instance as it was.
C2_Original ==
    [][(/\ last'.op = "save"
        /\ RequiredUnset(inst.cls, inst.doc))
       => (/\ last'.err = "EmptyRequiredField"
           /\ last'.calls = <<>>
           /\ inst' = inst)]_vars

\* C3 as stated, for the registered fields of a new instance: a field with
\* a default that was not supplied reads back as its default, a supplied
\* field reads back as the set hook's result, storage name or not.
C3_Original ==
    (/\ last.op = "init"
     /\ last.err = ""
     /\ "_id" \notin DOMAIN last.kw)
    => \A n \in FieldNames(ClassFields(fields, inst.cls)) :
           LET id == Attr(attrs, inst.cls, n)
           IN  /\ (n \notin DOMAIN last.kw /\ GetDefault(id) # NoVal)
                      => FieldGet(inst.doc, id) = [err |-> "", val |-> GetDefault(id)]
               /\ n \in DOMAIN last.kw
                      => FieldGet(inst.doc, id) =
                             [err |-> "", val |-> SetHook(id, last.kw[n])]

\* C4: update on an instance without an id fails with InvalidUpdateCall for
\* any keyword arguments, writes no field and issues no store call.
C4_TransientUpdate ==
    [][(/\ last'.op = "update"
        /\ "_id" \notin DOMAIN inst.doc)
       => (/\ last'.err = "InvalidUpdateCall"
           /\ last'.calls = <<>>
           /\ inst' = inst
           /\ collection' = collection)]_vars

\* update(**kw) with some keys was refused on an id-less instance
C4_Witness ==
    /\ last.op = "update"
    /\ last.err = "InvalidUpdateCall"
    /\ DOMAIN last.kw # {}
    /\ "_id" \notin DOMAIN inst.doc

\* the $set body the claim expects of instance.update(**kw): for each key,
\* the set hook's result under the field's storage name
ExpectedBody(C, kw) ==
    LET name(k) == FieldName(Attr(attrs, C, k))
    IN  [fn \in {name(k) : k \in DOMAIN kw} |->
            LET k == CHOOSE k \in DOMAIN kw : name(k) = fn
            IN  SetHook(Attr(attrs, C, k), kw[k])]

\* what the claim says an update of declared fields on an instance with an
\* id does: one store update, scoped to the id, sending the changed fields
\* under their storage names as they now are in the document
ScopedUpdate ==
    /\ last'.err = ""
    /\ Len(last'.calls) = 1
    /\ last'.calls[1].m = "update"
    /\ last'.calls[1].spec = ("_id" :> GetId(inst.doc))
    /\ last'.calls[1].set
    /\ last'.calls[1].body = ExpectedBody(inst.cls, last'.kw)
    /\ Cardinality(DOMAIN last'.calls[1].body) = Cardinality(DOMAIN last'.kw)
    /\ \A fn \in DOMAIN last'.calls[1].body :
           fn \in DOMAIN inst'.doc /\ inst'.doc[fn] = last'.calls[1].body[fn]

\* update on the type hands its filter and changes to the store as they are
BulkUpdate ==
    /\ last'.err = ""
    /\ last'.calls = <<Call("update", GetCollection(collection, last'.cls).name,
                            last'.arg, last'.kw, FALSE)>>
    /\ inst' = inst

SameDocument(a, b) ==
    /\ a.cls = b.cls
    /\ Truthy(GetId(a.doc))
    /\ Truthy(GetId(b.doc))
    /\ GetId(a.doc) = GetId(b.doc)

\* C6 as stated: a == b exactly when a and b have the same concrete type
\* and the same non-empty id, and a != b is the negation of a == b.
C6_Original ==
    (inst # NoInst /\ other # NoInst)
    => \A a, b \in {inst, other} :
           /\ Eq(a, b) <=> SameDocument(a, b)
           /\ Ne(a, b) <=> ~Eq(a, b)

Selected(B, kw) ==
    IF ChildKey(B) \in DOMAIN kw /\ kw[ChildKey(B)] \in DOMAIN ChildModels(B)
    THEN ChildModels(B)[kw[ChildKey(B)]]
    ELSE B

\* C8: a raw document built through a base type yields the subtype
\* registered under its discriminator value, the base type when there is
\* none; its keys go through the fields of the selected type, so that a
\* field only the subtype declares is accepted.
C8_Polymorphic ==
    [][(last'.op = "init" /\ ChildKey(last'.cls) # "")
       => LET kw == last'.kw
              sel == Selected(last'.cls, kw)
          IN  /\ last'.err = "" => inst'.cls = sel
              /\ (\A k \in DOMAIN kw : Private(k) \/ HasAttr(attrs, sel, k))
                 => /\ last'.err = ""
                    /\ \A k \in DOMAIN kw :
                           LET fn == IF Private(k) \/ "_id" \in DOMAIN kw
                                     THEN k ELSE FieldName(Attr(attrs, sel, k))
                           IN  fn \in DOMAIN inst'.doc]_vars

\* Person(role=2, age=...) built an Infant with the toggle off
C8_Witness ==
    /\ last.op = "init"
    /\ last.cls = "Person"
    /\ last.err = ""
    /\ ~auto
    /\ DOMAIN last.kw = {"role", "age"}
    /\ inst.cls = "Infant"
    /\ inst.doc["age"] = last.kw["age"]

\* C9 as stated: an id-less document gets an id only by a successful
\* save(); a successful save() hands the full document to the store and
\* records the returned id in an id-less document; save(), update() and
\* delete() never change the id of a document that has one.
C9_Original ==
    [][/\ (/\ last'.op # "init"
           /\ GetId(inst.doc) = NoVal
           /\ GetId(inst'.doc) # NoVal)
          => (last'.op = "save" /\ last'.err = "")
       /\ (last'.op = "save" /\ last'.err = "")
          => /\ Len(last'.calls) = 1
             /\ last'.calls[1].m = "save"
             /\ last'.calls[1].body = inst.doc
             /\ GetId(inst.doc) = NoVal
                    => inst'.doc = Put(inst.doc, "_id", last'.ret)
       /\ (/\ last'.op \in {"save", "update", "delete"}
           /\ Truthy(GetId(inst.doc)))
          => GetId(inst'.doc) = GetId(inst.doc)]_vars

\* what the claim says of a construction with an unregistered key while
\* the toggle is on: it succeeds, the value is written under the key and
\* the key is registered with a new descriptor of the type
AutoCreated ==
    LET C == Built(last')
    IN  /\ last'.err = ""
        /\ inst'.cls = C
        /\ \A k \in Unknown(ClassFields(fields, C), last'.kw) :
               /\ k \in DOMAIN inst'.doc
               /\ inst'.doc[k] = last'.kw[k]
               /\ <<C, k>> \in DOMAIN fields'[C]
               /\ <<C, k>> \notin DOMAIN fields[C]
               /\ fields'[C][<<C, k>>] = k

\* a registered key stays registered, and a construction whose keys are all
\* registered succeeds whatever the toggle
StaysDeclared ==
    /\ \A T \in Types : FieldNames(fields[T]) \subseteq FieldNames(fields'[T])
    /\ (/\ last'.op = "init"
        /\ Unknown(ClassFields(fields, Built(last')), last'.kw) = {})
       => last'.err = ""

\* C10 as stated: with the toggle on, a construction with an undeclared
\* non-reserved key succeeds and registers the key, which stays a declared
\* field of the type whatever the toggle is later.
C10_Original ==
    [][/\ (/\ last'.op = "init"
           /\ auto
           /\ Unknown(ClassFields(fields, Built(last')), last'.kw) # {})
          => AutoCreated
       /\ StaysDeclared]_vars

\* C10 amended: the same, for keyword arguments that carry no _id key.
C10_AutoCreate ==
    [][/\ (/\ last'.op = "init"
           /\ auto
           /\ "_id" \notin DOMAIN last'.kw
           /\ Unknown(ClassFields(fields, Built(last')), last'.kw) # {})
          => AutoCreated
       /\ StaysDeclared]_vars

\* Foo(k=...) succeeded with the toggle off: k was registered before
C10_Witness ==
    /\ last.op = "init"
    /\ last.err = ""
    /\ ~auto
    /\ inst.cls = "Foo"
    /\ "k" \in DOMAIN last.kw
    /\ "_id" \notin DOMAIN last.kw
    /\ inst.doc["k"] = last.kw["k"]

\* what the claim says of resolving the token of the saved instance: the
\* token names the type's collection and the instance's id, the lookup
\* succeeds and its result equals the instance
RoundTrip ==
    /\ last.ref = [coll |-> GetName(inst.cls), id |-> inst.doc["_id"]]
    /\ last.err = ""
    /\ other # NoInst
    /\ Eq(other, inst)
    /\ Eq(inst, other)
    /\ SameDocument(inst, other)

Visible(T) == [id \in {Attr(attrs, T, n) : n \in Dir(attrs, T)} |-> id[2]]

\* C12 as stated: the registry of every type always maps exactly the Field
\* descriptors now visible as attributes of the type, inherited ones and
\* ones with an underscore name included, to their attribute names.
C12_Original == \A T \in defined : fields[T] = Visible(T)

\* C13 as stated: an update of declared fields on an instance with an id
\* fails with EmptyRequiredField, and issues no store update, whenever a
\* required field of the registry has no value once the changes are
\* applied, be the field among the changed keys or not.
C13_Original ==
    [][(/\ last'.op = "update"
        /\ Truthy(GetId(inst.doc))
        /\ DOMAIN last'.kw \subseteq FieldNames(ClassFields(fields, inst.cls))
        /\ CheckRequired(ClassFields(fields, inst.cls), attrs, inst.cls,
                         inst'.doc, {}) # "")
       => (/\ last'.err = "EmptyRequiredField"
           /\ last'.calls = <<>>)]_vars

\* a type with no polymorphic registry among its classes
PlainType(T) == \A C \in MroSet(T) : ChildKey(C) = ""

\* C14 as stated: every store call issued on behalf of a plain type T, or
\* of an instance of T, goes to the collection named by T's own type name,
\* whichever of T, its parents and its subtypes reached the store first.
C14_Original ==
    (last.cls \in Types /\ PlainType(last.cls))
    => \A i \in 1 .. Len(last.calls) : last.calls[i].coll = GetName(last.cls)

=============================================================================
